---- MODULE Spec2Model ----
(***************************************************************************)
(* Model of package cherrySession (dzzzc/cherry).                          *)
(*                                                                         *)
(* The repository holds two versions of type Session:                      *)
(*   variant "conn"   : src/unnamed/part_000  (net.Conn, sendChan, the     *)
(*                      writer loop of Start and the reader readPackets)   *)
(*   variant "entity" : src/net/session/session.go (INetwork entity and    *)
(*                      the *Component registry, NextSID)                  *)
(* Both declare `package cherrySession` and `type Session`, so a build has *)
(* exactly one of them; Init picks the variant and every action belongs to *)
(* one variant.                                                            *)
(***************************************************************************)
EXTENDS Integers, Sequences, FiniteSets, TLC

\* ---------------------------------------------------------------- bounds
MaxSends == 2       \* Send calls made, over all caller goroutines
MaxReads == 2       \* conn.Read calls that return (afterwards Read blocks)
MaxListeners == 1   \* listeners the application registers by OnClose and OnError; a
                    \* Component holds up to MaxListeners + 1 listeners in its two chains
MaxClosed == 1      \* explicit Closed() calls by caller goroutines
MaxSIDs == 2        \* NextSID calls
MaxCalls == 2       \* calls of Bind, Unbind, Kick, Close and OnCloseProcess on one session.go session

\* ------------------------------------------------------- program constants
Init_ == 0          \* const Init    = iota
WaitAck == 1        \* const WaitAck
Working == 2        \* const Working
Closed_ == 3        \* const Closed

Statuses == {Init_, WaitAck, Working, Closed_}

\* goroutines of variant "conn"
Callers == {"c1", "c2"}
Goroutines == Callers \cup {"writer", "reader"}

\* uids offered to Bind
UIDs == {-1, 0, 1}

\* frontend node ids given to NewSession
FrontendIds == {"node-1", "node-2"}

\* what one conn.Read may put in buf[:n]
Chunks == {<<>>, <<1, 2, 3>>}

VARIABLES
  variant,            \* "conn" | "entity"
  crashed,            \* an unrecovered panic has ended the process
  \* ---- Session (part_000)
  status, running, uid, sessionComponent,
  onCloseListeners, onErrorListeners, onMessageListener,
  seen,               \* seen[g]: the values a plain read of s.running by g may return
  callerPc, callerMsg, sends,
  writerPc, writerMsg, accepted,
  readerPc, panicking, exitPath, reads,
  connWrites, connCloseCalls, log,
  closedCalls, removeCalls,
  bindErr,            \* the error returned by the last Bind call
  \* ---- session.go: NextSID, Session, and the Component it calls
  nextSessionId, sidLog,
  created, sid, frontendId,
  onCreate, onClose, createLog, closeLog,
  uidTable, registryBindCalls, unbindCalls, closeProcessCalls,
  entityCloseCalls,
  calls               \* the calls made on the session.go session

envVars == <<variant, sessionComponent>>
bindVars == <<uid, bindErr>>
regVars == <<onCloseListeners, onErrorListeners, onMessageListener>>
runVars == <<running, seen>>
callVars == <<callerPc, callerMsg, sends>>
wrVars == <<writerPc, writerMsg, accepted, connWrites>>
rdVars == <<readerPc, panicking, exitPath, reads, log, connCloseCalls>>
closeVars == <<closedCalls, removeCalls>>

sidVars == <<nextSessionId, sidLog>>
sessVars == <<created, sid, frontendId>>
compVars == <<onCreate, onClose>>
chainVars == <<createLog, closeLog, closeProcessCalls>>
tableVars == <<uidTable, registryBindCalls, unbindCalls>>
entityVars == <<sidVars, sessVars, compVars, chainVars, tableVars, entityCloseCalls, calls>>
connVars == <<status, regVars, runVars, callVars, wrVars, rdVars, closeVars>>

vars == <<envVars, crashed, bindVars, connVars, entityVars>>

NoMsg == 0

\* ------------------------------------------------------------ NewSession
\* status Init, running false, uid 0, an unbuffered sendChan (no caller blocked
\* on it), one default close listener and one default error listener, no
\* message listener. sc may be nil.
NewSession ==
  /\ status = Init_
  /\ running = FALSE
  /\ uid = 0
  /\ sessionComponent \in BOOLEAN
  /\ onCloseListeners = 1
  /\ onErrorListeners = 1
  /\ onMessageListener = FALSE
  /\ seen = [g \in Goroutines |-> {FALSE}]
  /\ callerPc = [c \in Callers |-> "idle"]
  /\ callerMsg = [c \in Callers |-> NoMsg]
  /\ sends = 0
  /\ writerPc = "init"
  /\ writerMsg = NoMsg
  /\ accepted = <<>>
  /\ readerPc = "none"
  /\ panicking = FALSE
  /\ exitPath = "none"
  /\ reads = 0
  /\ connWrites = <<>>
  /\ connCloseCalls = 0
  /\ log = <<>>
  /\ closedCalls = 0
  /\ removeCalls = 0

\* session.go: var nextSessionId int64 is zero; no session is made yet; the
\* Component has no listeners and an empty uid table
NoSession ==
  /\ nextSessionId = 0
  /\ sidLog = <<>>
  /\ created = FALSE
  /\ sid = 0
  /\ frontendId = ""
  /\ onCreate = 0
  /\ onClose = 0
  /\ createLog = <<>>
  /\ closeLog = <<>>
  /\ closeProcessCalls = 0
  /\ uidTable = {}
  /\ registryBindCalls = 0
  /\ unbindCalls = 0
  /\ entityCloseCalls = 0
  /\ calls = 0

Init ==
  /\ variant = "conn"
  /\ crashed = FALSE
  /\ bindErr = "none"
  /\ NewSession
  /\ NoSession

InitAPI ==
  /\ variant \in {"conn", "entity"}
  /\ crashed = FALSE
  /\ bindErr = "none"
  /\ NewSession
  /\ NoSession

Up == ~crashed /\ variant = "conn"

\* A store to the plain field s.running by goroutine g. The field is read and
\* written by several goroutines with no synchronisation (a data race): the
\* storing goroutine reads its own store back, any other goroutine may still
\* read an older value.
StoreRunning(g, v) ==
  /\ running' = v
  /\ seen' = [h \in Goroutines |-> IF h = g THEN {v} ELSE seen[h] \cup {v}]

\* ------------------------------------------------------------ registration
\* Registration is taken before Start: OnClose/OnError/OnMessage store plain
\* fields that the reader goroutine reads without synchronisation.
OnClose ==
  /\ Up /\ writerPc = "init"
  /\ onCloseListeners + onErrorListeners < 2 + MaxListeners
  /\ onCloseListeners' = onCloseListeners + 1
  /\ UNCHANGED <<entityVars, envVars, crashed, bindVars, status, onErrorListeners, onMessageListener,
                 runVars, callVars, wrVars, rdVars, closeVars>>

OnError ==
  /\ Up /\ writerPc = "init"
  /\ onCloseListeners + onErrorListeners < 2 + MaxListeners
  /\ onErrorListeners' = onErrorListeners + 1
  /\ UNCHANGED <<entityVars, envVars, crashed, bindVars, status, onCloseListeners, onMessageListener,
                 runVars, callVars, wrVars, rdVars, closeVars>>

OnMessage ==
  /\ Up /\ writerPc = "init"
  /\ onMessageListener' = TRUE
  /\ UNCHANGED <<entityVars, envVars, crashed, bindVars, status, onCloseListeners, onErrorListeners,
                 runVars, callVars, wrVars, rdVars, closeVars>>

\* ------------------------------------------------------------------ Closed
\* func (s *Session) Closed(), run by goroutine g.
Closed(g) ==
  /\ status' = Closed_
  /\ StoreRunning(g, FALSE)
  /\ closedCalls' = closedCalls + 1
  /\ removeCalls' = IF sessionComponent THEN removeCalls + 1 ELSE removeCalls

\* a caller goroutine calls s.Closed()
CallClosed(c) ==
  /\ Up /\ callerPc[c] = "idle"
  /\ closedCalls < MaxClosed
  /\ Closed(c)
  /\ UNCHANGED <<entityVars, envVars, crashed, bindVars, regVars, callVars, wrVars, rdVars>>

\* -------------------------------------------------------------------- Send
\* func (s *Session) Send(msg): the check of s.running. The payload of the k-th
\* Send call is k.
SendCheck(c) ==
  /\ Up /\ callerPc[c] = "idle"
  /\ sends < MaxSends
  /\ sends' = sends + 1
  /\ \E r \in seen[c] :
       IF r
         THEN /\ callerPc' = [callerPc EXCEPT ![c] = "blocked"]
              /\ callerMsg' = [callerMsg EXCEPT ![c] = sends + 1]
         ELSE UNCHANGED <<callerPc, callerMsg>>
  /\ UNCHANGED <<entityVars, envVars, crashed, bindVars, status, regVars, runVars, wrVars, rdVars,
                 closeVars>>

\* ------------------------------------------------------------------- Start
\* s.running = true; go s.readPackets(2048)
Start ==
  /\ Up /\ writerPc = "init"
  /\ running' = TRUE
  /\ seen' = [h \in Goroutines |->
                IF h \in {"writer", "reader"} THEN {TRUE} ELSE seen[h] \cup {TRUE}]
  /\ writerPc' = "loop"
  /\ readerPc' = "start"
  /\ UNCHANGED <<entityVars, envVars, crashed, bindVars, status, regVars, callVars, writerMsg, accepted,
                 connWrites, panicking, exitPath, reads, log, connCloseCalls, closeVars>>

\* for s.running { ... }
WriterLoop ==
  /\ Up /\ writerPc = "loop"
  /\ \E r \in seen["writer"] : writerPc' = IF r THEN "select" ELSE "exited"
  /\ UNCHANGED <<entityVars, envVars, crashed, bindVars, status, regVars, runVars, callVars, writerMsg,
                 accepted, connWrites, rdVars, closeVars>>

\* case msg := <-s.sendChan, meeting the s.sendChan <- msg of caller c. The
\* channel is unbuffered: the send completes, and Send returns nil, with the
\* receive.
WriterRecv(c) ==
  /\ Up /\ writerPc = "select" /\ callerPc[c] = "blocked"
  /\ writerPc' = "write"
  /\ writerMsg' = callerMsg[c]
  /\ accepted' = Append(accepted, callerMsg[c])
  /\ callerPc' = [callerPc EXCEPT ![c] = "idle"]
  /\ callerMsg' = [callerMsg EXCEPT ![c] = NoMsg]
  /\ seen' = [seen EXCEPT ![c] = @ \cap seen["writer"]]
  /\ UNCHANGED <<entityVars, envVars, crashed, bindVars, status, regVars, running, sends, connWrites,
                 rdVars, closeVars>>

\* a writer that tries a failed Write again instead of closing
WriterWriteRetry ==
  /\ Up /\ writerPc = "write"
  /\ \E ok \in (IF connCloseCalls > 0 THEN {FALSE} ELSE BOOLEAN) :
       /\ connWrites' = Append(connWrites,
                               [msg |-> writerMsg, ok |-> ok, closed |-> connCloseCalls > 0])
       /\ writerPc' = IF ok THEN "loop" ELSE "write"
       /\ writerMsg' = IF ok THEN NoMsg ELSE writerMsg
  /\ UNCHANGED <<entityVars, envVars, crashed, bindVars, status, runVars, closeVars, regVars,
                 callVars, accepted, rdVars>>

\* a writer that drops a failed Write and goes on with the loop
WriterWriteNoClose ==
  /\ Up /\ writerPc = "write"
  /\ writerPc' = "loop"
  /\ writerMsg' = NoMsg
  /\ \E ok \in (IF connCloseCalls > 0 THEN {FALSE} ELSE BOOLEAN) :
       connWrites' = Append(connWrites,
                            [msg |-> writerMsg, ok |-> ok, closed |-> connCloseCalls > 0])
  /\ UNCHANGED <<entityVars, envVars, crashed, bindVars, status, runVars, closeVars, regVars,
                 callVars, accepted, rdVars>>

\* _, err := s.conn.Write(msg); if err != nil { s.Closed() }
\* A Write on a connection that was closed returns an error.
WriterWrite ==
  /\ Up /\ writerPc = "write"
  /\ writerPc' = "loop"
  /\ writerMsg' = NoMsg
  /\ \E ok \in (IF connCloseCalls > 0 THEN {FALSE} ELSE BOOLEAN) :
       /\ connWrites' = Append(connWrites,
                               [msg |-> writerMsg, ok |-> ok, closed |-> connCloseCalls > 0])
       /\ IF ok THEN UNCHANGED <<status, runVars, closeVars>> ELSE Closed("writer")
  /\ UNCHANGED <<entityVars, envVars, crashed, bindVars, regVars, callVars, accepted, rdVars>>

\* ------------------------------------------------------------- readPackets
\* a reader whose defer statement comes before the check of the listener: the
\* panic then runs the deferred function
ReaderStartDeferFirst ==
  /\ Up /\ readerPc = "start"
  /\ IF onMessageListener
       THEN /\ readerPc' = "loop"
            /\ UNCHANGED <<panicking, exitPath>>
       ELSE /\ readerPc' = "deferred"
            /\ panicking' = TRUE
            /\ exitPath' = "nolistener"
  /\ UNCHANGED <<entityVars, envVars, crashed, bindVars, status, regVars, runVars, callVars,
                 wrVars, reads, log, connCloseCalls, closeVars>>

\* if s.onMessageListener == nil { panic(...) }; defer func() {...}(); buf := ...
\* The panic is raised before the defer statement is reached and nothing
\* recovers it: the process ends.
ReaderStart ==
  /\ Up /\ readerPc = "start"
  /\ IF onMessageListener
       THEN /\ readerPc' = "loop"
            /\ UNCHANGED <<crashed, exitPath>>
       ELSE /\ readerPc' = "panicked"
            /\ crashed' = TRUE
            /\ exitPath' = "nolistener"
  /\ UNCHANGED <<entityVars, envVars, bindVars, status, regVars, runVars, callVars, wrVars,
                 panicking, reads, log, connCloseCalls, closeVars>>

\* for s.running { ... }: the loop condition; when it is false the function
\* returns and the deferred function is due
ReaderLoop ==
  /\ Up /\ readerPc = "loop"
  /\ \E r \in seen["reader"] :
       IF r THEN /\ readerPc' = "read"
                 /\ UNCHANGED exitPath
            ELSE /\ readerPc' = "deferred"
                 /\ exitPath' = "stopped"
  /\ UNCHANGED <<entityVars, envVars, crashed, bindVars, status, regVars, runVars, callVars, wrVars,
                 panicking, reads, log, connCloseCalls, closeVars>>

\* for _, listener := range listeners { listener(s) }: the calls made when the
\* listener `bad` panics (bad = 0: none does), one log entry per call
RECURSIVE RunListeners(_, _, _, _)
RunListeners(kind, i, n, bad) ==
  IF i > n THEN <<>>
  ELSE IF i = bad THEN << <<kind, i, "panic">> >>
  ELSE << <<kind, i, "nil">> >> \o RunListeners(kind, i + 1, n, bad)

\* The listener NewSession registers (index 1) only logs; a listener registered
\* by OnClose/OnError is application code and may panic.
BadChoices(n) == {0} \cup 2..n

\* n, err := s.conn.Read(buf) returns an error: every error listener is called,
\* then s.running = false; return. A panicking listener ends the loop there,
\* with the panic pending while the deferred function runs.
ReaderReadError(bad) ==
  /\ Up /\ readerPc = "read" /\ reads < MaxReads
  /\ reads' = reads + 1
  /\ log' = Append(log, <<"read", <<>>, "err">>)
             \o RunListeners("error", 1, onErrorListeners, bad)
  /\ readerPc' = "deferred"
  /\ exitPath' = "readError"
  /\ panicking' = (bad # 0)
  /\ IF bad = 0 THEN StoreRunning("reader", FALSE) ELSE UNCHANGED runVars
  /\ UNCHANGED <<entityVars, envVars, crashed, bindVars, status, regVars, callVars, wrVars,
                 connCloseCalls, closeVars>>

\* a dispatch that calls the listener once for each byte read
RECURSIVE DispatchPerByte(_, _)
DispatchPerByte(chunk, res) ==
  IF Len(chunk) < 1 THEN <<>>
  ELSE << <<"message", <<Head(chunk)>>, res>> >> \o DispatchPerByte(Tail(chunk), res)

\* the dispatch of one read: nothing when n < 1, else one call of
\* s.onMessageListener(buf[:n]), which returns nil or an error (res)
Dispatch(chunk, res) ==
  IF Len(chunk) < 1 THEN <<>> ELSE << <<"message", chunk, res>> >>

\* n, err := s.conn.Read(buf) returns n bytes (chunk) and no error; n < 1:
\* continue; else err = s.onMessageListener(buf[:n]), and return if err != nil
ReaderRead(chunk, res) ==
  /\ Up /\ readerPc = "read" /\ reads < MaxReads
  /\ Len(chunk) < 1 => res = "nil"
  /\ reads' = reads + 1
  /\ log' = Append(log, <<"read", chunk, "nil">>) \o Dispatch(chunk, res)
  /\ IF Len(chunk) >= 1 /\ res = "err"
       THEN /\ readerPc' = "deferred"
            /\ exitPath' = "dispatchError"
       ELSE /\ readerPc' = "loop"
            /\ UNCHANGED exitPath
  /\ UNCHANGED <<entityVars, envVars, crashed, bindVars, status, regVars, runVars, callVars, wrVars,
                 panicking, connCloseCalls, closeVars>>

\* a deferred function that releases the connection before it calls the close
\* listeners
ReaderDeferredCloseFirst(bad) ==
  /\ Up /\ readerPc = "deferred"
  /\ log' = log \o << <<"connClose", 0, "nil">> >>
                \o RunListeners("close", 1, onCloseListeners, bad)
  /\ connCloseCalls' = connCloseCalls + 1
  /\ crashed' = (panicking \/ bad # 0)
  /\ readerPc' = IF crashed' THEN "panicked" ELSE "done"
  /\ UNCHANGED <<entityVars, envVars, bindVars, status, regVars, runVars, callVars, wrVars,
                 panicking, exitPath, reads, closeVars>>

\* the deferred function: every close listener is called, then s.conn.Close()
\* (its error is only logged). A panic of a close listener leaves the deferred
\* function before s.conn.Close(). Nothing recovers a panic: a pending one, or
\* one raised here, ends the process when the deferred function is left.
ReaderDeferred(bad) ==
  /\ Up /\ readerPc = "deferred"
  /\ log' = log \o RunListeners("close", 1, onCloseListeners, bad)
                \o (IF bad = 0 THEN << <<"connClose", 0, "nil">> >> ELSE <<>>)
  /\ connCloseCalls' = IF bad = 0 THEN connCloseCalls + 1 ELSE connCloseCalls
  /\ crashed' = (panicking \/ bad # 0)
  /\ readerPc' = IF crashed' THEN "panicked" ELSE "done"
  /\ UNCHANGED <<entityVars, envVars, bindVars, status, regVars, runVars, callVars, wrVars,
                 panicking, exitPath, reads, closeVars>>

\* --------------------------------------------------------- SetStatus, Bind
\* func (s *Session) SetStatus(status int) { s.status = status }
SetStatus(v) ==
  /\ Up
  /\ status' = v
  /\ UNCHANGED <<entityVars, envVars, crashed, bindVars, regVars, runVars, callVars, wrVars, rdVars,
                 closeVars>>

\* a Bind that rejects only the negative uids
BindOffByOne(u) ==
  /\ Up
  /\ uid' = IF u < 0 THEN uid ELSE u
  /\ bindErr' = IF u < 0 THEN "IllegalUID" ELSE "nil"
  /\ UNCHANGED <<entityVars, envVars, crashed, status, regVars, runVars, callVars, wrVars,
                 rdVars, closeVars>>

\* func (s *Session) Bind(uid): IllegalUID if uid < 1, else atomic.StoreInt64
Bind(u) ==
  /\ Up
  /\ uid' = IF u < 1 THEN uid ELSE u
  /\ bindErr' = IF u < 1 THEN "IllegalUID" ELSE "nil"
  /\ UNCHANGED <<entityVars, envVars, crashed, status, regVars, runVars, callVars, wrVars, rdVars,
                 closeVars>>

\* ================================================== session.go (entity)
UpE == ~crashed /\ variant = "entity"

\* atomic.AddInt64(addr, delta): one indivisible add; returns the new value
AtomicAddInt64(v, delta) == v + delta

\* an increment that is a separate load and store: a caller that loaded
\* before another's store returns the id that one returned
NextSIDRacy(c) ==
  /\ UpE
  /\ Len(sidLog) < MaxSIDs
  /\ nextSessionId' \in {nextSessionId, nextSessionId + 1}
  /\ sidLog' = Append(sidLog, [caller |-> c, id |-> nextSessionId + 1])
  /\ UNCHANGED <<envVars, crashed, bindVars, connVars, sessVars, compVars, chainVars,
                 tableVars, entityCloseCalls, calls>>

\* func NextSID(): return atomic.AddInt64(&nextSessionId, 1), called by
\* goroutine c; sidLog lists the calls in the order the adds take effect
NextSID(c) ==
  /\ UpE
  /\ Len(sidLog) < MaxSIDs
  /\ nextSessionId' = AtomicAddInt64(nextSessionId, 1)
  /\ sidLog' = Append(sidLog, [caller |-> c, id |-> nextSessionId'])
  /\ UNCHANGED <<envVars, crashed, bindVars, connVars, sessVars, compVars, chainVars,
                 tableVars, entityCloseCalls, calls>>

\* Component: registration of an on-create listener, before any session is made
OnCreateListener ==
  /\ UpE /\ ~created
  /\ onCreate + onClose < MaxListeners + 2
  /\ onCreate' = onCreate + 1
  /\ UNCHANGED <<envVars, crashed, bindVars, connVars, sidVars, sessVars, onClose, chainVars,
                 tableVars, entityCloseCalls, calls>>

\* Component: registration of an on-close listener
OnCloseListener ==
  /\ UpE /\ ~created
  /\ onCreate + onClose < MaxListeners + 2
  /\ onClose' = onClose + 1
  /\ UNCHANGED <<envVars, crashed, bindVars, connVars, sidVars, sessVars, onCreate, chainVars,
                 tableVars, entityCloseCalls, calls>>

\* for _, listener := range chain { if listener(s) == false { break } }: the
\* calls made when listener `stop` is the first that does not return true
\* (stop = 0: all return true); it returns false, or panics (how)
RECURSIVE RunChain(_, _, _, _)
RunChain(i, n, stop, how) ==
  IF i > n THEN <<>>
  ELSE IF i = stop THEN << <<i, how>> >>
  ELSE << <<i, "true">> >> \o RunChain(i + 1, n, stop, how)

\* a NewSession whose loop goes on after a listener returned false
NewSessionNoBreak(s, f, stop) ==
  /\ UpE /\ ~created
  /\ \E k \in 1..Len(sidLog) : sidLog[k].id = s
  /\ created' = TRUE
  /\ sid' = s
  /\ frontendId' = f
  /\ uid' = 0
  /\ createLog' = [k \in 1..onCreate |-> <<k, IF k = stop THEN "false" ELSE "true">>]
  /\ UNCHANGED <<envVars, crashed, bindErr, connVars, sidVars, compVars, closeLog,
                 closeProcessCalls, tableVars, entityCloseCalls, calls>>

\* func NewSession(sid, frontendId, entity, component): uid 0, then the
\* component's onCreate listeners until one returns false. The sid is one that
\* NextSID issued.
NewSessionE(s, f, stop) ==
  /\ UpE /\ ~created
  /\ \E k \in 1..Len(sidLog) : sidLog[k].id = s
  /\ created' = TRUE
  /\ sid' = s
  /\ frontendId' = f
  /\ uid' = 0
  /\ createLog' = RunChain(1, onCreate, stop, "false")
  /\ UNCHANGED <<envVars, crashed, bindErr, connVars, sidVars, compVars, closeLog,
                 closeProcessCalls, tableVars, entityCloseCalls, calls>>

\* Component.Bind(sid, uid): the uid table maps uid to sid and the session's
\* uid is set
ComponentBind(s, u) ==
  /\ registryBindCalls' = registryBindCalls + 1
  /\ uidTable' = {e \in uidTable : e[2] # s} \cup {<<u, s>>}
  /\ uid' = u

\* func (s *Session) Bind(uid): SessionIllegalUID if uid < 1, else
\* s.component.Bind(s.sid, uid)
BindE(u) ==
  /\ UpE /\ created
  /\ calls < MaxCalls
  /\ calls' = calls + 1
  /\ IF u < 1
       THEN /\ bindErr' = "IllegalUID"
            /\ UNCHANGED <<uid, tableVars>>
       ELSE /\ bindErr' = "nil"
            /\ ComponentBind(sid, u)
            /\ UNCHANGED unbindCalls
  /\ UNCHANGED <<envVars, crashed, connVars, sidVars, sessVars, compVars, chainVars,
                 entityCloseCalls>>

\* Component.Unbind(sid): the session's uid leaves the uid table and becomes 0;
\* nothing changes for a session that is not bound
ComponentUnbind(s) ==
  /\ unbindCalls' = unbindCalls + 1
  /\ uidTable' = {e \in uidTable : e[2] # s}
  /\ uid' = 0

\* func (s *Session) Unbind() { s.component.Unbind(s.sid) }
Unbind ==
  /\ UpE /\ created
  /\ calls < MaxCalls
  /\ calls' = calls + 1
  /\ ComponentUnbind(sid)
  /\ UNCHANGED <<envVars, crashed, bindErr, connVars, sidVars, sessVars, compVars, chainVars,
                 registryBindCalls, entityCloseCalls>>

\* func (s *Session) Close() { s.entity.Close() }
Close ==
  /\ UpE /\ created
  /\ calls < MaxCalls
  /\ calls' = calls + 1
  /\ entityCloseCalls' = entityCloseCalls + 1
  /\ UNCHANGED <<envVars, crashed, bindVars, connVars, sidVars, sessVars, compVars, chainVars,
                 tableVars>>

\* func (s *Session) Kick(reason, close): s.entity.Kick(reason); on its error
\* warn and return; else if close { s.Close() }
Kick(close, kickErr) ==
  /\ UpE /\ created
  /\ calls < MaxCalls
  /\ calls' = calls + 1
  /\ entityCloseCalls' = IF ~kickErr /\ close THEN entityCloseCalls + 1 ELSE entityCloseCalls
  /\ UNCHANGED <<envVars, crashed, bindVars, connVars, sidVars, sessVars, compVars, chainVars,
                 tableVars>>

\* func (s *Session) OnCloseProcess(): the component's onClose listeners until
\* one returns false, then s.Unbind(). A panic of a listener leaves the
\* function before s.Unbind(); nothing in it recovers.
OnCloseProcess(stop, how) ==
  /\ UpE /\ created
  /\ calls < MaxCalls
  /\ calls' = calls + 1
  /\ closeProcessCalls' = closeProcessCalls + 1
  /\ closeLog' = closeLog \o RunChain(1, onClose, stop, how)
  /\ IF stop # 0 /\ how = "panic"
       THEN /\ crashed' = TRUE
            /\ UNCHANGED <<uid, tableVars>>
       ELSE /\ ComponentUnbind(sid)
            /\ UNCHANGED <<crashed, registryBindCalls>>
  /\ UNCHANGED <<envVars, bindErr, connVars, sidVars, sessVars, compVars, createLog,
                 entityCloseCalls>>

\* ------------------------------------------------------------ specification
\* The concurrent I/O of one part_000 session: the goroutine that calls Start
\* (the writer loop), the reader goroutine it spawns, and the caller goroutines
\* that call Send and Closed.
Next ==
  \/ OnClose \/ OnError \/ OnMessage
  \/ \E c \in Callers : CallClosed(c)
  \/ \E c \in Callers : SendCheck(c)
  \/ Start
  \/ WriterLoop
  \/ \E c \in Callers : WriterRecv(c)
  \/ WriterWrite
  \/ ReaderStart
  \/ ReaderLoop
  \/ \E bad \in BadChoices(onErrorListeners) : ReaderReadError(bad)
  \/ \E chunk \in Chunks, res \in {"nil", "err"} : ReaderRead(chunk, res)
  \/ \E bad \in BadChoices(onCloseListeners) : ReaderDeferred(bad)

Spec == Init /\ [][Next]_vars

\* The session API called one call at a time: SetStatus, Bind, Closed and Send
\* on a part_000 session that was not started, and NextSID, NewSession, Bind,
\* Unbind, Kick, Close and OnCloseProcess of session.go.
NextAPI ==
  \/ \E v \in Statuses : SetStatus(v)
  \/ \E u \in UIDs : Bind(u)
  \/ \E c \in Callers : CallClosed(c)
  \/ \E c \in Callers : SendCheck(c)
  \/ \E c \in Callers : NextSID(c)
  \/ OnCreateListener \/ OnCloseListener
  \/ \E s \in 1..MaxSIDs, f \in FrontendIds, stop \in 0..onCreate : NewSessionE(s, f, stop)
  \/ \E u \in UIDs : BindE(u)
  \/ Unbind
  \/ Close
  \/ \E close \in BOOLEAN, kickErr \in BOOLEAN : Kick(close, kickErr)
  \/ \E stop \in 0..onClose, how \in {"false", "panic"} : OnCloseProcess(stop, how)

SpecAPI == InitAPI /\ [][NextAPI]_vars

\* ------------------------------------------------------------------ claims
\* the calls of listener i of one chain recorded in the log
Calls(kind, i) == {k \in 1..Len(log) : log[k][1] = kind /\ log[k][2] = i}
\* the positions of the log's entries of one kind
Entries(kind) == {k \in 1..Len(log) : log[k][1] = kind}
\* the payloads handed to conn.Write, in the order of the calls
Written == [k \in 1..Len(connWrites) |-> connWrites[k].msg]
\* the reader has left readPackets after a read error
ReadErrorExit == exitPath = "readError" /\ readerPc \in {"done", "panicked"}

\* C1: however many close triggers fire (Closed() calls by callers or by the
\* writer after a failed write, the reader's termination), each registered close
\* listener is invoked exactly once and Remove(sid) is called exactly once: never
\* more than once, once when Closed() has been called, and each listener once
\* when the reader has finished.
C1_CloseExactlyOnce ==
  /\ removeCalls <= 1
  /\ \A i \in 1..onCloseListeners : Cardinality(Calls("close", i)) <= 1
  /\ (sessionComponent /\ closedCalls >= 1) => removeCalls = 1
  /\ readerPc = "done" => \A i \in 1..onCloseListeners : Cardinality(Calls("close", i)) = 1

\* C2: the payloads are handed to conn.Write in exactly the order in which the
\* writer loop accepted them from the outbound queue, each accepted payload at
\* most once, whichever callers sent them and however their calls interleave.
C2_WriteOrderIsAcceptanceOrder ==
  /\ Len(Written) <= Len(accepted)
  /\ \A k \in 1..Len(Written) : Written[k] = accepted[k]
  /\ \A j, k \in 1..Len(Written) : j # k => Written[j] # Written[k]
  /\ Len(accepted) - Len(Written) = (IF writerPc = "write" THEN 1 ELSE 0)

\* two callers' payloads were accepted in the opposite order of their Send
\* calls and written in the order of acceptance
C2_Witness ==
  /\ Len(connWrites) = 2
  /\ Written = <<2, 1>>
  /\ connWrites[1].ok /\ connWrites[2].ok

\* C3: a Send called while the session is not running (s.running is false, as
\* before Start or after it stopped) returns at once: the caller is not left
\* blocked on the queue and its payload is not handed over.
C3_SendWhileNotRunningReturns ==
  [][\A c \in Callers :
       (~running /\ SendCheck(c)) => (callerPc'[c] = "idle" /\ callerMsg'[c] = NoMsg)]_vars

\* C4: once the reader has left readPackets after a read error, every error
\* listener and every close listener has been invoked exactly once, in
\* registration order, the error listeners before the close listeners, and
\* conn.Close has been invoked exactly once.
C4_ReadErrorRunsListenersOnce ==
  ReadErrorExit =>
    /\ \A i \in 1..onErrorListeners : Cardinality(Calls("error", i)) = 1
    /\ \A i \in 1..onCloseListeners : Cardinality(Calls("close", i)) = 1
    /\ \A j \in Entries("error"), k \in Entries("close") : j < k
    /\ \A j, k \in Entries("error") : j < k => log[j][2] < log[k][2]
    /\ \A j, k \in Entries("close") : j < k => log[j][2] < log[k][2]
    /\ connCloseCalls = 1

\* C7: when a listener of the close chain panics, the cleanup still completes:
\* once the deferred function of readPackets has been left, conn.Close has been
\* invoked.
C7_CleanupSurvivesListenerPanic ==
  (readerPc \in {"done", "panicked"} /\ exitPath # "nolistener") => connCloseCalls = 1

\* C9: a reader started with no message listener panics before it reads, before
\* any close or error listener runs and before the connection is closed.
C9_NoListenerPanicsBeforeRead ==
  /\ (readerPc \notin {"none", "start"} /\ ~onMessageListener) =>
        /\ readerPc = "panicked" /\ crashed /\ exitPath = "nolistener"
        /\ reads = 0 /\ log = <<>> /\ connCloseCalls = 0
  /\ exitPath = "nolistener" => ~onMessageListener

\* the reader was started with no message listener and has panicked
C9_Witness == readerPc = "panicked" /\ exitPath = "nolistener" /\ Len(accepted) >= 1

\* C5: the status never leaves Closed: no step takes a session whose status is
\* Closed to another status.
C5_ClosedIsTerminal == [][status = Closed_ => status' = Closed_]_vars

\* C6: Bind(uid) with uid < 1 returns IllegalUID and changes nothing: the
\* session's uid stays what it was, bound or not, and in session.go the
\* Component's Bind is not called and its uid table is untouched.
C6_IllegalUIDChangesNothing ==
  [][\A u \in UIDs :
       (u < 1 /\ (Bind(u) \/ BindE(u))) =>
          /\ bindErr' = "IllegalUID"
          /\ uid' = uid
          /\ registryBindCalls' = registryBindCalls
          /\ uidTable' = uidTable]_vars

\* a bound session has refused an illegal uid
C6_Witness == uid = 1 /\ bindErr = "IllegalUID"

\* C8: over any sequence of Close calls and Kick calls that close, the entity's
\* Close is invoked at most once (and so is conn.Close).
C8_CloseAtMostOnce == entityCloseCalls <= 1 /\ connCloseCalls <= 1

\* C10: the identifiers NextSID returns are distinct and strictly increasing in
\* the order the atomic adds take effect, whichever goroutines call it; none is
\* ever returned twice.
C10_SIDsDistinctIncreasing ==
  /\ \A j, k \in 1..Len(sidLog) : j < k => sidLog[j].id < sidLog[k].id
  /\ \A j, k \in 1..Len(sidLog) : j # k => sidLog[j].id # sidLog[k].id
  /\ \A k \in 1..Len(sidLog) : 1 <= sidLog[k].id /\ sidLog[k].id <= nextSessionId

\* two goroutines have each received an identifier
C10_Witness ==
  /\ Len(sidLog) >= 2
  /\ sidLog[1].caller # sidLog[2].caller

\* C11: every read that returns n >= 1 bytes is followed at once, on the reader,
\* by exactly one call of the message listener with exactly the bytes read, and
\* the listener is called at no other time; a read of zero bytes is followed by
\* no call and leaves the reader in its loop.
C11_OneDispatchPerRead ==
  /\ \A k \in Entries("read") :
       (log[k][3] = "nil" /\ Len(log[k][2]) >= 1) =>
          /\ k + 1 <= Len(log)
          /\ log[k + 1][1] = "message"
          /\ log[k + 1][2] = log[k][2]
  /\ \A k \in Entries("message") :
       /\ k > 1
       /\ log[k - 1] = <<"read", log[k][2], "nil">>
       /\ Len(log[k][2]) >= 1
  /\ (log # <<>> /\ log[Len(log)] = <<"read", <<>>, "nil">>) =>
       (readerPc \in {"loop", "read"} \/ (readerPc = "deferred" /\ exitPath = "stopped"))

\* a read of zero bytes was followed by a read of three bytes, dispatched in
\* one call
C11_Witness ==
  /\ Len(log) = 3
  /\ log[1] = <<"read", <<>>, "nil">>
  /\ log[2] = <<"read", <<1, 2, 3>>, "nil">>
  /\ log[3] = <<"message", <<1, 2, 3>>, "nil">>

\* the session's goroutines have nothing left to do of their own: the reader
\* has returned from readPackets, the writer has left Start or waits in its
\* select, and no call of Send or Closed is in progress
Quiescent ==
  /\ readerPc = "done"
  /\ writerPc \in {"select", "exited"}
  /\ \A c \in Callers : callerPc[c] = "idle"

\* C12: a dispatch failure closes the session: once the reader has returned
\* after the message listener reported an error and nothing else is in
\* progress, the running flag is false (so Send hands over no payload), the
\* status is Closed and, with a registry attached, Remove(sid) has been called.
C12_DispatchFailureCloses ==
  (exitPath = "dispatchError" /\ Quiescent) =>
     /\ ~running
     /\ status = Closed_
     /\ sessionComponent => removeCalls >= 1

\* C13: a read error moves the session to Closed: once the reader has returned
\* after a read error and nothing else is in progress, the status is Closed
\* and, with a registry attached, Remove(sid) has been called.
C13_ReadErrorCloses ==
  (exitPath = "readError" /\ Quiescent) =>
     /\ status = Closed_
     /\ sessionComponent => removeCalls >= 1

\* C14: a failed conn.Write closes the session at once: in the state the failed
\* Write leaves and ever after, the status is Closed, the running flag is
\* false, Remove(sid) has been called when a registry is attached, and the
\* writer makes no further Write (the failed Write is the last one, and the
\* writer is about to leave or has left its loop).
C14_WriteErrorCloses ==
  \A k \in 1..Len(connWrites) :
     ~connWrites[k].ok =>
        /\ k = Len(connWrites)
        /\ status = Closed_
        /\ ~running
        /\ sessionComponent => removeCalls >= 1
        /\ writerPc \in {"loop", "exited"}

\* a Write on the open connection failed after an earlier one succeeded; the
\* session is closed, the registry was told, and the writer has left its loop
C14_Witness ==
  /\ Len(connWrites) = 2
  /\ connWrites[1].ok
  /\ ~connWrites[2].ok /\ ~connWrites[2].closed
  /\ sessionComponent /\ removeCalls = 1
  /\ status = Closed_ /\ ~running
  /\ writerPc = "exited"

\* C15: the writer loop waits for a payload or for the running flag to be
\* cleared: it never leaves Start while running is true, and once running is
\* false it leaves even if no payload is sent any more, so with running false,
\* the reader gone and no Send in progress the writer is not left waiting in
\* its select, which only a payload can end.
C15_WriterExitsWhenStopped ==
  /\ writerPc = "exited" => ~running
  /\ (~running /\ readerPc = "done" /\ \A c \in Callers : callerPc[c] = "idle") =>
        writerPc # "select"

\* C16: once the reader's cleanup has called conn.Close, the writer loop hands
\* no payload to conn.Write any more, in any interleaving: no Write call is
\* made on the closed connection.
C16_NoWriteAfterConnClose ==
  \A k \in 1..Len(connWrites) : ~connWrites[k].closed

\* C20: every Send call returns: no caller is blocked on the queue when the
\* writer has left Start, for then no consumer will ever take the payload.
C20_NoSendBlockedForever ==
  \A c \in Callers : ~(callerPc[c] = "blocked" /\ writerPc = "exited")

\* C17: on every exit path of the reader the close listeners run strictly
\* after the last conn.Read (and the last call of a message or error listener)
\* and strictly before conn.Close: no read follows the first close listener,
\* and conn.Close comes after every registered close listener has been called
\* and has returned.
C17_CloseListenersBetweenReadsAndConnClose ==
  /\ \A j \in Entries("read") \cup Entries("message") \cup Entries("error") :
       \A k \in Entries("close") \cup Entries("connClose") : j < k
  /\ \A k \in Entries("connClose") :
       /\ \A j \in Entries("close") : j < k
       /\ \A i \in 1..onCloseListeners :
            \E j \in Calls("close", i) : j < k /\ log[j][3] = "nil"

\* the reader left on a dispatch error with two close listeners registered:
\* read, message, both close listeners, then conn.Close
C17_Witness ==
  /\ readerPc = "done" /\ exitPath = "dispatchError"
  /\ onCloseListeners = 2
  /\ Len(log) = 5
  /\ log[3] = <<"close", 1, "nil">>
  /\ log[4] = <<"close", 2, "nil">>
  /\ log[5] = <<"connClose", 0, "nil">>

\* the calls a chain of n listeners logs in one run: listeners 1, 2, ... in
\* the order of registration, each once, every one but the last returning
\* true, and the last one either the n-th or one that returned false
IsChainRun(run, n) ==
  /\ Len(run) <= n
  /\ \A k \in 1..Len(run) :
       /\ run[k][1] = k
       /\ run[k][2] \in {"true", "false"}
       /\ k < Len(run) => run[k][2] = "true"
  /\ Len(run) < n => (run # <<>> /\ run[Len(run)][2] = "false")

\* C18: each call of OnCloseProcess runs the on-close listeners in the order
\* of registration up to the first that returns false, and then calls Unbind
\* exactly once, also when a listener stopped the chain.
C18_CloseChainThenUnbind ==
  [][closeProcessCalls' = closeProcessCalls + 1 =>
       /\ IsChainRun(SubSeq(closeLog', Len(closeLog) + 1, Len(closeLog')), onClose)
       /\ unbindCalls' = unbindCalls + 1]_vars

\* C19: NewSession calls the on-create listeners in the order of registration
\* and stops at the first that returns false: the listeners before it are each
\* called once, the ones after it never; the session is returned in every
\* case, with uid 0 and the sid and frontendId that were passed.
C19_CreateChainStopsAtFalse ==
  [][\A s \in 1..MaxSIDs, f \in FrontendIds, stop \in 0..onCreate :
       NewSessionE(s, f, stop) =>
          /\ IsChainRun(createLog', onCreate)
          /\ Len(createLog') = (IF stop = 0 THEN onCreate ELSE stop)
          /\ stop # 0 => createLog'[stop] = <<stop, "false">>
          /\ created' /\ uid' = 0 /\ sid' = s /\ frontendId' = f]_vars

\* of two on-create listeners the first returned false: it was called once,
\* the second never, and the session exists with uid 0
C19_Witness ==
  /\ created /\ onCreate = 2
  /\ createLog = << <<1, "false">> >>
  /\ uid = 0 /\ sid = 2 /\ frontendId = "node-2"
====
